---- MODULE Spec2Model ----
(***************************************************************************)
(* Calendar <-> Sheets sync: the entry points of src/src/main.js (setup,   *)
(* trigger registration, the three pass entry points) and the Config       *)
(* object of src/src/src/config.js (dot-path get/set, validate, the        *)
(* per-user property store).  SyncEngine, SheetsService and ErrorHandler   *)
(* are not part of the sources at hand; the engine's lock and phases are   *)
(* taken from the design document (sections 4.6 and 5).                    *)
(***************************************************************************)
EXTENDS Integers, Sequences, FiniteSets, Bags, TLC

VARIABLES
  cfg,       \* the Config object (a tree of JavaScript values)
  setsDone,  \* number of Config.set calls made so far
  cRes,      \* the last Config call and what it gave
  props,     \* PropertiesService user properties: key -> stored string
  everId,    \* a SPREADSHEET_ID entry has been stored at some time
  clock,     \* the wall clock read by new Date()
  uRes,      \* the last user-store call and what it gave
  triggers,  \* installed project triggers, counted per kind
  lock,      \* the sync lock
  procs,     \* the concurrent script executions
  cursor,    \* the committed sync cursor
  lastCall,  \* the last setup-type call and how it ended
  ret        \* what the step just taken returned from a pass entry point

cfgVars  == <<cfg, setsDone, cRes>>
userVars == <<props, everId, clock, uRes>>
mainVars == <<triggers, lock, procs, cursor, lastCall, ret>>
vars     == <<cfg, setsDone, cRes, props, everId, clock, uRes,
              triggers, lock, procs, cursor, lastCall, ret>>

(***************************************************************************)
(* JavaScript values.  An object is an insertion-ordered list of           *)
(* <<key, value>> pairs, which is the order Object.entries walks.          *)
(***************************************************************************)
Undef  == [t |-> "undef", s |-> "", n |-> 0, e |-> <<>>]
Null   == [t |-> "null",  s |-> "", n |-> 0, e |-> <<>>]
Str(s) == [t |-> "str",   s |-> s,  n |-> 0, e |-> <<>>]
Num(n) == [t |-> "num",   s |-> "", n |-> n, e |-> <<>>]
Bool(b) == [t |-> "bool", s |-> "", n |-> (IF b THEN 1 ELSE 0), e |-> <<>>]
Obj(e) == [t |-> "obj",   s |-> "", n |-> 0, e |-> e]

\* typeof v === 'object'
TypeofObject(v) == v.t \in {"obj", "null"}

\* ToBoolean(v)
Truthy(v) ==
  CASE v.t = "undef" -> FALSE
    [] v.t = "null"  -> FALSE
    [] v.t = "str"   -> v.s # ""
    [] v.t = "num"   -> v.n # 0
    [] v.t = "bool"  -> v.n = 1
    [] OTHER         -> TRUE

Nullish(v) == v.t \in {"undef", "null"}

\* v <= 0 after ToNumber: undefined, objects, functions and non-numeric
\* strings give NaN (false); null and '' give 0.
LeZero(v) ==
  CASE v.t = "num"  -> v.n <= 0
    [] v.t = "null" -> TRUE
    [] v.t = "bool" -> v.n <= 0
    [] v.t = "str"  -> v.s = ""
    [] OTHER        -> FALSE

\* key in obj (own properties)
HasKey(o, k) == \E i \in 1..Len(o.e) : o.e[i][1] = k

\* obj[key] of a non-nullish value
Prop(o, k) ==
  IF o.t = "obj" /\ HasKey(o, k)
    THEN o.e[CHOOSE i \in 1..Len(o.e) : o.e[i][1] = k][2]
    ELSE Undef

\* obj[key] = v
Put(o, k, v) ==
  IF HasKey(o, k)
    THEN Obj([i \in 1..Len(o.e) |-> IF o.e[i][1] = k THEN <<k, v>> ELSE o.e[i]])
    ELSE Obj(Append(o.e, <<k, v>>))

\* Object.entries(v) of a non-nullish value: an object's own pairs, a
\* string's characters (the strings here have at most one), else none.
Entries(v) ==
  CASE v.t = "obj" -> v.e
    [] v.t = "str" /\ v.s # "" -> << <<"0", v>> >>
    [] OTHER -> <<>>

(***************************************************************************)
(* The Config literal, cut to the sections validate() reads.               *)
(***************************************************************************)
ConfigLiteral ==
  Obj(<< <<"CALENDAR", Obj(<< <<"PRIMARY_CALENDAR_ID", Str("primary")>>,
                              <<"LOOK_AHEAD_DAYS", Num(365)>> >>)>>,
         <<"SHEETS", Obj(<< <<"SPREADSHEET_NAME", Str("Calendar Sync Data")>> >>)>>,
         <<"SYNC", Obj(<< <<"BATCH_SIZE", Num(100)>> >>)>>,
         <<"CUSTOM_FIELDS",
           Obj(<< <<"PRIORITY", Obj(<< <<"column", Str("L")>>, <<"name", Str("Priority")>> >>)>>,
                  <<"NOTES", Obj(<< <<"column", Str("O")>>, <<"name", Str("Notes")>> >>)>> >>)>> >>)

\* Config.get's loop over path.split('.')
RECURSIVE GetWalk(_, _, _)
GetWalk(value, keys, defaultValue) ==
  IF keys = <<>> THEN value
  ELSE IF Truthy(value) /\ TypeofObject(value) /\ HasKey(value, Head(keys))
         THEN GetWalk(Prop(value, Head(keys)), Tail(keys), defaultValue)
         ELSE defaultValue

\* Config.get(path, defaultValue): nothing in the try block throws on these
\* values, so the catch block's defaultValue is never the answer
ConfigGet(c, path, defaultValue) ==
  [threw |-> FALSE, val |-> GetWalk(c, path, defaultValue)]

\* Config.set's loop and final assignment on `current`; keys ends with
\* lastKey.  `in` and property assignment on null raise a TypeError, which
\* set logs and rethrows; what was assigned before stays assigned.
RECURSIVE SetWalk(_, _, _)
SetWalk(current, keys, value) ==
  IF current.t # "obj" THEN [tree |-> current, threw |-> TRUE]
  ELSE IF Len(keys) = 1 THEN [tree |-> Put(current, Head(keys), value), threw |-> FALSE]
  ELSE LET key   == Head(keys)
           child == IF ~HasKey(current, key) \/ ~TypeofObject(Prop(current, key))
                      THEN Obj(<<>>) ELSE Prop(current, key)
           r     == SetWalk(child, Tail(keys), value)
       IN [tree |-> Put(current, key, r.tree), threw |-> r.threw]

\* Config.set(path, value)
ConfigSet(c, path, value) == SetWalk(c, path, value)

(***************************************************************************)
(* Config.validate                                                         *)
(***************************************************************************)
Err(kind, on) == [kind |-> kind, on |-> on]

\* the for..of over Object.entries(CUSTOM_FIELDS); reading .column of a
\* null or undefined entry throws and ends the loop
RECURSIVE ValidateFields(_)
ValidateFields(entries) ==
  IF entries = <<>> THEN <<>>
  ELSE LET fieldName   == Head(entries)[1]
           fieldConfig == Head(entries)[2]
       IN IF Nullish(fieldConfig) THEN << Err("exception", "") >>
          ELSE (IF ~Truthy(Prop(fieldConfig, "column")) \/ ~Truthy(Prop(fieldConfig, "name"))
                  THEN << Err("custom", fieldName) >> ELSE <<>>)
               \o ValidateFields(Tail(entries))

\* the body of validate's try block: each read of a section that is null or
\* undefined throws, the catch pushes one error and the rest is skipped
Validate(c) ==
  LET cal == Prop(c, "CALENDAR")
      sh  == Prop(c, "SHEETS")
      sy  == Prop(c, "SYNC")
      cf  == Prop(c, "CUSTOM_FIELDS")
      exc == << Err("exception", "") >>
      e1  == IF ~Truthy(Prop(cal, "PRIMARY_CALENDAR_ID"))
               THEN << Err("required", "CALENDAR.PRIMARY_CALENDAR_ID") >> ELSE <<>>
      e2  == IF ~Truthy(Prop(sh, "SPREADSHEET_NAME"))
               THEN << Err("required", "SHEETS.SPREADSHEET_NAME") >> ELSE <<>>
      e3  == IF LeZero(Prop(sy, "BATCH_SIZE"))
               THEN << Err("positive", "SYNC.BATCH_SIZE") >> ELSE <<>>
      e4  == IF LeZero(Prop(cal, "LOOK_AHEAD_DAYS"))
               THEN << Err("positive", "CALENDAR.LOOK_AHEAD_DAYS") >> ELSE <<>>
  IN IF Nullish(cal) THEN exc
     ELSE IF Nullish(sh) THEN e1 \o exc
     ELSE IF Nullish(sy) THEN e1 \o e2 \o exc
     ELSE IF Nullish(cf) THEN e1 \o e2 \o e3 \o e4 \o exc
     ELSE e1 \o e2 \o e3 \o e4 \o ValidateFields(Entries(cf))

(***************************************************************************)
(* Calls on the Config object                                              *)
(***************************************************************************)
MaxSets == 2

SetPaths ==
  { <<"CALENDAR">>, <<"CALENDAR", "LOOK_AHEAD_DAYS">>,
    <<"SYNC", "BATCH_SIZE">>,
    <<"CUSTOM_FIELDS", "PRIORITY">>, <<"CUSTOM_FIELDS", "PRIORITY", "column">>,
    <<"CUSTOM_FIELDS", "NOTES", "name">>, <<"CUSTOM_FIELDS", "EXTRA", "name">> }

SetValues == { Null, Undef, Str(""), Str("L"), Num(0), Obj(<<>>) }

GetDefaults == { Null, Str("dflt") }

NoCall == [op |-> "none", path |-> <<>>, val |-> Undef, threw |-> FALSE,
           res |-> Undef, follows |-> FALSE, errs |-> <<>>]

CfgInit == cfg = ConfigLiteral /\ setsDone = 0 /\ cRes = NoCall

\* Config.set(path, value)
CallSet(path, value) ==
  /\ setsDone < MaxSets
  /\ LET r == ConfigSet(cfg, path, value)
     IN /\ cfg' = r.tree
        /\ cRes' = [NoCall EXCEPT !.op = "set", !.path = path, !.val = value,
                                  !.threw = r.threw]
  /\ setsDone' = setsDone + 1
  /\ UNCHANGED <<userVars, mainVars>>

\* Config.get(path, defaultValue); `follows` says that it comes right after
\* a completed Config.set of the same path, whose value is kept in val
CallGet(path, defaultValue) ==
  /\ LET r == ConfigGet(cfg, path, defaultValue)
         f == cRes.op = "set" /\ cRes.path = path /\ ~cRes.threw
     IN cRes' = [NoCall EXCEPT !.op = "get", !.path = path,
                               !.val = (IF f THEN cRes.val ELSE Undef),
                               !.threw = r.threw, !.res = r.val, !.follows = f]
  /\ UNCHANGED <<cfg, setsDone>>
  /\ UNCHANGED <<userVars, mainVars>>

\* Config.validate()
CallValidate ==
  /\ cRes' = [NoCall EXCEPT !.op = "validate", !.errs = Validate(cfg)]
  /\ UNCHANGED <<cfg, setsDone>>
  /\ UNCHANGED <<userVars, mainVars>>

(***************************************************************************)
(* The per-user store: PropertiesService user properties hold strings.     *)
(* JSON.stringify and JSON.parse are given on the texts and values that    *)
(* occur here; every other text makes JSON.parse throw.                    *)
(***************************************************************************)
PrefsObj  == Obj(<< <<"email", Bool(FALSE)>>, <<"slack", Bool(FALSE)>> >>)
PrefsText == "{\"email\":false,\"slack\":false}"

IsoOf(n) ==
  CASE n = 1 -> "2026-01-01T00:00:00.000Z"
    [] n = 2 -> "2026-01-02T00:00:00.000Z"
    [] n = 3 -> "2026-01-03T00:00:00.000Z"
    [] OTHER -> "2026-01-04T00:00:00.000Z"

JSONStringify(v) ==
  CASE v.t = "null" -> "null"
    [] v.t = "bool" -> (IF v.n = 1 THEN "true" ELSE "false")
    [] v.t = "num" /\ v.n = 123 -> "123"
    [] v.t = "num" /\ v.n = 0 -> "0"
    [] v.t = "str" /\ v.s = "abc" -> "\"abc\""
    [] v = PrefsObj -> PrefsText
    [] OTHER -> "{}"

\* JSON.parse(text): ok says that it did not throw
JSONParse(text) ==
  CASE text = "null"  -> [ok |-> TRUE, val |-> Null]
    [] text = "true"  -> [ok |-> TRUE, val |-> Bool(TRUE)]
    [] text = "false" -> [ok |-> TRUE, val |-> Bool(FALSE)]
    [] text = "123"   -> [ok |-> TRUE, val |-> Num(123)]
    [] text = "0"     -> [ok |-> TRUE, val |-> Num(0)]
    [] text = "\"abc\"" -> [ok |-> TRUE, val |-> Str("abc")]
    [] text = PrefsText -> [ok |-> TRUE, val |-> PrefsObj]
    [] text = "{}"    -> [ok |-> TRUE, val |-> Obj(<<>>)]
    [] OTHER          -> [ok |-> FALSE, val |-> Undef]

UserKeys == {"SPREADSHEET_ID", "LAST_SYNC_TIME", "SYNC_ENABLED", "NOTIFICATION_PREFERENCES"}

NoProperty == [has |-> FALSE, s |-> ""]
Stored(s)  == [has |-> TRUE, s |-> s]

\* Config.getUserConfig(key, defaultValue) on the store p
GetUserConfig(p, key, defaultValue) ==
  IF ~p[key].has THEN defaultValue
  ELSE IF JSONParse(p[key].s).ok THEN JSONParse(p[key].s).val
  ELSE Str(p[key].s)

\* Config.setUserConfig(key, value) on the store p
SetUserConfig(p, key, value) ==
  [p EXCEPT ![key] = Stored(IF value.t = "str" THEN value.s ELSE JSONStringify(value))]

\* Config.initializeUserConfig() on the store p at time now
InitializeUserConfig(p, now) ==
  IF GetUserConfig(p, "SPREADSHEET_ID", Null) = Null
    THEN SetUserConfig(
           SetUserConfig(
             SetUserConfig(
               SetUserConfig(p, "SPREADSHEET_ID", Str("")),
               "LAST_SYNC_TIME", Str(IsoOf(now))),
             "SYNC_ENABLED", Bool(TRUE)),
           "NOTIFICATION_PREFERENCES", PrefsObj)
    ELSE p

MaxClock == 2

WriteKeys == {"SPREADSHEET_ID", "LAST_SYNC_TIME"}

WriteValues ==
  { Str(""), Str("sheet-1"), Str("123"), Str("true"), Str("null"), Str("\"abc\""),
    Str(IsoOf(1)), Num(123), Bool(TRUE), Null, PrefsObj }

NoUserCall == [op |-> "none", key |-> "", val |-> Undef, res |-> Undef, follows |-> FALSE]

UserInit ==
  /\ props = [k \in UserKeys |-> NoProperty]
  /\ everId = FALSE
  /\ clock = 1
  /\ uRes = NoUserCall

\* Config.setUserConfig(key, value)
CallSetUserConfig(key, value) ==
  /\ props' = SetUserConfig(props, key, value)
  /\ everId' = (everId \/ key = "SPREADSHEET_ID")
  /\ uRes' = [NoUserCall EXCEPT !.op = "set", !.key = key, !.val = value]
  /\ UNCHANGED clock
  /\ UNCHANGED <<cfgVars, mainVars>>

\* Config.getUserConfig(key, defaultValue); `follows` says that it comes
\* right after setUserConfig of the same key, whose value is kept in val
CallGetUserConfig(key, defaultValue) ==
  /\ LET f == uRes.op = "set" /\ uRes.key = key
     IN uRes' = [NoUserCall EXCEPT !.op = "get", !.key = key,
                                   !.val = (IF f THEN uRes.val ELSE Undef),
                                   !.res = GetUserConfig(props, key, defaultValue),
                                   !.follows = f]
  /\ UNCHANGED <<props, everId, clock>>
  /\ UNCHANGED <<cfgVars, mainVars>>

\* Config.initializeUserConfig()
CallInitializeUserConfig ==
  /\ props' = InitializeUserConfig(props, clock)
  /\ everId' = (everId \/ props'["SPREADSHEET_ID"].has)
  /\ uRes' = [NoUserCall EXCEPT !.op = "init"]
  /\ UNCHANGED clock
  /\ UNCHANGED <<cfgVars, mainVars>>

\* time passes between calls
ClockTick ==
  /\ clock < MaxClock
  /\ clock' = clock + 1
  /\ UNCHANGED <<props, everId, uRes>>
  /\ UNCHANGED <<cfgVars, mainVars>>

(***************************************************************************)
(* main.js: triggers                                                       *)
(***************************************************************************)
TimeTrigger     == "timeBased:performFullSync"
EditTrigger     == "onEdit:onSheetEdit"
CalendarTrigger == "onEventUpdated:onCalendarChange"
TriggerKinds    == {TimeTrigger, EditTrigger, CalendarTrigger}

NoTriggers == [k \in TriggerKinds |-> 0]

\* ScriptApp.newTrigger(handler)...create()
NewTrigger(t, kind) == [t EXCEPT ![kind] = @ + 1]

\* clearAllTriggers(): every project trigger is deleted
ClearAllTriggers(t) == NoTriggers

\* what a clearAllTriggers() that throws part-way may leave behind
PartlyCleared(t) ==
  {u \in [TriggerKinds -> 0..(t[TimeTrigger] + t[EditTrigger] + t[CalendarTrigger])] :
     \A k \in TriggerKinds : u[k] <= t[k]}

FailurePoints == {"none", "clear", "time", "sheet", "edit"}

\* a setupTriggers() that leaves the old triggers in place
SetupTriggersNoClear(t, fp, partial) ==
  CASE fp = "clear" -> [triggers |-> partial, threw |-> TRUE]
    [] fp = "time"  -> [triggers |-> t, threw |-> TRUE]
    [] fp \in {"sheet", "edit"} -> [triggers |-> NewTrigger(t, TimeTrigger), threw |-> TRUE]
    [] OTHER -> [triggers |-> NewTrigger(NewTrigger(t, TimeTrigger), EditTrigger),
                 threw |-> FALSE]

\* setupTriggers(): fp is the call that throws, if any (deleting triggers,
\* creating the time trigger, getSyncSpreadsheet, creating the edit
\* trigger); the catch block rethrows
SetupTriggers(t, fp, partial) ==
  CASE fp = "clear" -> [triggers |-> partial, threw |-> TRUE]
    [] fp = "time"  -> [triggers |-> ClearAllTriggers(t), threw |-> TRUE]
    [] fp \in {"sheet", "edit"} ->
         [triggers |-> NewTrigger(ClearAllTriggers(t), TimeTrigger), threw |-> TRUE]
    [] OTHER -> [triggers |-> NewTrigger(NewTrigger(ClearAllTriggers(t), TimeTrigger),
                                         EditTrigger),
                 threw |-> FALSE]

(***************************************************************************)
(* The sync engine (design sections 4.6, 5, 6): lock, phases, summaries    *)
(***************************************************************************)
HostMaxRuntime == 2
LockTTL == HostMaxRuntime

FreeLock == [held |-> FALSE, live |-> FALSE, age |-> 0]

\* tryAcquire(key, ttl): the lock is free, or stale past its timeout
CanAcquire(lk) == ~lk.held \/ lk.age >= LockTTL

Counters(c, u, d, k, e) ==
  [created |-> c, updated |-> u, deleted |-> d, conflicts |-> k, errors |-> e]
ZeroCounters == Counters(0, 0, 0, 0, 0)

DiffResults == { ZeroCounters, Counters(1, 0, 1, 1, 0) }

NoOutcome == [kind |-> "none", status |-> "", cause |-> "", counters |-> ZeroCounters]
Summary(c) == [kind |-> "summary", status |-> "OK", cause |-> "", counters |-> c]
Skipped == [kind |-> "summary", status |-> "SKIPPED_CONCURRENT_RUN", cause |-> "",
            counters |-> ZeroCounters]
ErrorStatus == [kind |-> "status", status |-> "ERROR", cause |-> "store unavailable",
                counters |-> ZeroCounters]
Thrown == [kind |-> "thrown", status |-> "", cause |-> "store unavailable",
           counters |-> ZeroCounters]

HeldPhases   == {"LOADING", "DIFFING", "RESOLVING", "WRITING", "COMMITTING"}
EnginePhases == {"ACQUIRING_LOCK"} \cup HeldPhases

(***************************************************************************)
(* main.js: the pass entry points, given what the engine call gave         *)
(***************************************************************************)
ReturnOf(kind, o, reported) == [kind |-> kind, val |-> o, reported |-> reported]

\* a performFullSync() that drops the engine's result
PerformFullSyncNoReturn(o) ==
  IF o.kind = "thrown" THEN ReturnOf("thrown", NoOutcome, TRUE)
  ELSE ReturnOf("undefined", NoOutcome, FALSE)

\* performFullSync(): returns the engine's result; logs, reports and
\* rethrows what the engine throws
PerformFullSync(o) ==
  IF o.kind = "thrown" THEN ReturnOf("thrown", NoOutcome, TRUE)
  ELSE ReturnOf("value", o, FALSE)

\* onCalendarChange(e): returns the engine's result; logs and reports what
\* the engine throws and falls off the end of the function
OnCalendarChange(o) ==
  IF o.kind = "thrown" THEN ReturnOf("undefined", NoOutcome, TRUE)
  ELSE ReturnOf("value", o, FALSE)

\* onSheetEdit(e) after the engine call
OnSheetEdit(o) ==
  IF o.kind = "thrown" THEN ReturnOf("undefined", NoOutcome, TRUE)
  ELSE ReturnOf("value", o, FALSE)

\* an onSheetEdit(e) that goes on whatever isEditInSyncRange answers
CallsEngineOnEditAnyway(check) == check # "throws"

\* onSheetEdit(e): the engine is called only when isEditInSyncRange(e)
\* returned true (check is "in", "out", or "throws")
CallsEngineOnEdit(check) == check = "in"

PassFns  == {"performFullSync", "onCalendarChange", "onSheetEdit"}
AdminFns == {"setupSync", "setupTriggers", "resetSync"}

\* the entry point whose engine call a script execution is in
InnerFn(fn) == IF fn \in {"setupSync", "resetSync"} THEN "performFullSync" ELSE fn

EntryReturn(fn, o) ==
  CASE InnerFn(fn) = "performFullSync" -> PerformFullSync(o)
    [] InnerFn(fn) = "onCalendarChange" -> OnCalendarChange(o)
    [] OTHER -> OnSheetEdit(o)

(***************************************************************************)
(* Script executions.  The host runs trigger handlers and editor calls     *)
(* concurrently, each in an execution of its own; executions have no       *)
(* identity beyond their state, so the running ones form a bag.            *)
(***************************************************************************)
NumProcs == 2

Exec(fn, pc) == [fn |-> fn, pc |-> pc, work |-> ZeroCounters, check |-> "n/a"]

Running == BagToSet(procs)

NoRet == [fn |-> "none", kind |-> "none", val |-> NoOutcome, reported |-> FALSE,
          failed |-> FALSE, check |-> "n/a"]

\* the Config literal after Config.set('CUSTOM_FIELDS.PRIORITY.column', '')
InvalidConfig ==
  ConfigSet(ConfigLiteral, <<"CUSTOM_FIELDS", "PRIORITY", "column">>, Str("")).tree

\* the triggers a project may hold before any call: none, those of an
\* earlier setup, or duplicates and a stray calendar trigger
PreExistingTriggers ==
  { NoTriggers,
    NewTrigger(NewTrigger(NoTriggers, TimeTrigger), EditTrigger),
    NewTrigger(NewTrigger(NewTrigger(NewTrigger(NoTriggers, TimeTrigger), TimeTrigger),
                          EditTrigger), CalendarTrigger) }

\* the cursor holds the counters of the last committed pass
NoCursor == [committed |-> FALSE, counters |-> ZeroCounters]

MainInit ==
  /\ triggers \in PreExistingTriggers
  /\ lock = FreeLock
  /\ procs = EmptyBag
  /\ cursor = NoCursor
  /\ lastCall = "none"
  /\ ret = NoRet

\* a new execution starts in state st, if the host has room for it
Begin(st) ==
  /\ BagCardinality(procs) < NumProcs
  /\ procs' = procs (+) SetToBag({st})

\* the execution in state st moves to state new
Move(st, new) == procs' = (procs (-) SetToBag({st})) (+) SetToBag({new})

\* the execution in state st ends
End(st) == procs' = procs (-) SetToBag({st})

\* the execution st leaves its entry point with the engine's outcome o (and,
\* inside setupSync or resetSync, the rest of that function runs: a thrown
\* error is rethrown, anything else ends in the success object)
Return(st, o) ==
  LET r == EntryReturn(st.fn, o)
  IN /\ End(st)
     /\ ret' = [fn |-> InnerFn(st.fn), kind |-> r.kind, val |-> r.val,
                reported |-> r.reported, failed |-> o.kind \in {"status", "thrown"},
                check |-> st.check]
     /\ lastCall' = IF st.fn \in AdminFns
                      THEN (IF r.kind = "thrown" THEN "threw" ELSE "success")
                      ELSE lastCall

\* the editor starts setupSync(), setupTriggers() or resetSync(); these
\* are run by hand, one at a time
StartAdmin(fn) ==
  /\ \A st \in Running : st.fn \notin AdminFns
  /\ Begin(Exec(fn, CASE fn = "resetSync" -> "reset_clear"
                      [] fn = "setupSync" -> "setup_sheet"
                      [] OTHER -> "setup_triggers"))
  /\ lastCall' = "running"
  /\ ret' = NoRet
  /\ UNCHANGED <<triggers, lock, cursor>>
  /\ UNCHANGED <<cfgVars, userVars>>

\* resetSync(): clearAllTriggers()
ResetClear(st, threw) ==
  /\ st.pc = "reset_clear"
  /\ IF threw
       THEN /\ triggers' \in PartlyCleared(triggers)
            /\ End(st)
            /\ lastCall' = "threw"
       ELSE /\ triggers' = ClearAllTriggers(triggers)
            /\ Move(st, [st EXCEPT !.pc = "reset_data"])
            /\ UNCHANGED lastCall
  /\ ret' = NoRet
  /\ UNCHANGED <<lock, cursor>>
  /\ UNCHANGED <<cfgVars, userVars>>

\* resetSync(): SyncEngine.clearSyncData()
ResetData(st, threw) ==
  /\ st.pc = "reset_data"
  /\ IF threw
       THEN /\ End(st)
            /\ lastCall' = "threw"
            /\ UNCHANGED cursor
       ELSE /\ cursor' = NoCursor
            /\ Move(st, [st EXCEPT !.pc = "setup_sheet"])
            /\ UNCHANGED lastCall
  /\ ret' = NoRet
  /\ UNCHANGED <<triggers, lock>>
  /\ UNCHANGED <<cfgVars, userVars>>

\* setupSync(): SheetsService.createOrGetSyncSheet()
SetupSheet(st, threw) ==
  /\ st.pc = "setup_sheet"
  /\ IF threw
       THEN /\ End(st)
            /\ lastCall' = "threw"
       ELSE /\ Move(st, [st EXCEPT !.pc = "setup_triggers"])
            /\ UNCHANGED lastCall
  /\ ret' = NoRet
  /\ UNCHANGED <<triggers, lock, cursor>>
  /\ UNCHANGED <<cfgVars, userVars>>

\* setupTriggers(), called from the editor or from setupSync(), which goes
\* on to performFullSync()
SetupTriggersStep(st, fp) ==
  /\ st.pc = "setup_triggers"
  /\ \E partial \in (IF fp = "clear" THEN PartlyCleared(triggers) ELSE {triggers}) :
       LET r == SetupTriggers(triggers, fp, partial)
       IN /\ triggers' = r.triggers
          /\ IF r.threw
               THEN End(st) /\ lastCall' = "threw"
               ELSE IF st.fn = "setupTriggers"
                 THEN End(st) /\ lastCall' = "success"
                 ELSE Move(st, [st EXCEPT !.pc = "ACQUIRING_LOCK"])
                      /\ UNCHANGED lastCall
  /\ ret' = NoRet
  /\ UNCHANGED <<lock, cursor>>
  /\ UNCHANGED <<cfgVars, userVars>>

\* the 15-minute trigger runs performFullSync()
TimerFires ==
  /\ triggers[TimeTrigger] > 0
  /\ Begin(Exec("performFullSync", "ACQUIRING_LOCK"))
  /\ ret' = NoRet
  /\ UNCHANGED <<triggers, lock, cursor, lastCall>>
  /\ UNCHANGED <<cfgVars, userVars>>

\* manualSync() runs performFullSync() from the editor
ManualSync ==
  /\ Begin(Exec("performFullSync", "ACQUIRING_LOCK"))
  /\ ret' = NoRet
  /\ UNCHANGED <<triggers, lock, cursor, lastCall>>
  /\ UNCHANGED <<cfgVars, userVars>>

\* a calendar change runs onCalendarChange(e), if a trigger for it exists
CalendarChanges ==
  /\ triggers[CalendarTrigger] > 0
  /\ Begin(Exec("onCalendarChange", "ACQUIRING_LOCK"))
  /\ ret' = NoRet
  /\ UNCHANGED <<triggers, lock, cursor, lastCall>>
  /\ UNCHANGED <<cfgVars, userVars>>

\* a sheet edit runs onSheetEdit(e); check is what isEditInSyncRange(e) does
SheetEdited(check) ==
  /\ triggers[EditTrigger] > 0
  /\ BagCardinality(procs) < NumProcs
  /\ IF CallsEngineOnEdit(check)
       THEN /\ Begin([Exec("onSheetEdit", "ACQUIRING_LOCK") EXCEPT !.check = check])
            /\ ret' = NoRet
       ELSE /\ procs' = procs
            /\ ret' = [NoRet EXCEPT !.fn = "onSheetEdit", !.kind = "undefined",
                                    !.reported = (check = "throws"),
                                    !.check = check]
  /\ UNCHANGED <<triggers, lock, cursor, lastCall>>
  /\ UNCHANGED <<cfgVars, userVars>>

\* ACQUIRING_LOCK: acquire or end the pass at once as skipped
Acquire(st) ==
  /\ st.pc = "ACQUIRING_LOCK"
  /\ IF CanAcquire(lock)
       THEN /\ lock' = [held |-> TRUE, live |-> TRUE, age |-> 0]
            /\ Move(st, [st EXCEPT !.pc = "LOADING"])
            /\ ret' = NoRet
            /\ UNCHANGED lastCall
       ELSE /\ Return(st, Skipped)
            /\ UNCHANGED lock
  /\ UNCHANGED <<triggers, cursor>>
  /\ UNCHANGED <<cfgVars, userVars>>

\* LOADING: both snapshots and the previous mapping and cursor are read
Load(st) ==
  /\ st.pc = "LOADING"
  /\ Move(st, [st EXCEPT !.pc = "DIFFING"])
  /\ ret' = NoRet
  /\ UNCHANGED <<triggers, lock, cursor, lastCall>>
  /\ UNCHANGED <<cfgVars, userVars>>

\* DIFFING: the change operations are computed
Diff(st) ==
  /\ st.pc = "DIFFING"
  /\ \E w \in DiffResults : Move(st, [st EXCEPT !.pc = "RESOLVING", !.work = w])
  /\ ret' = NoRet
  /\ UNCHANGED <<triggers, lock, cursor, lastCall>>
  /\ UNCHANGED <<cfgVars, userVars>>

\* RESOLVING: conflicts are settled
Resolve(st) ==
  /\ st.pc = "RESOLVING"
  /\ Move(st, [st EXCEPT !.pc = "WRITING"])
  /\ ret' = NoRet
  /\ UNCHANGED <<triggers, lock, cursor, lastCall>>
  /\ UNCHANGED <<cfgVars, userVars>>

\* WRITING: the operations are applied; single operations may fail
Write(st) ==
  /\ st.pc = "WRITING"
  /\ \E errs \in 0..st.work.created :
       Move(st, [st EXCEPT !.pc = "COMMITTING", !.work.errors = errs,
                           !.work.created = @ - errs])
  /\ ret' = NoRet
  /\ UNCHANGED <<triggers, lock, cursor, lastCall>>
  /\ UNCHANGED <<cfgVars, userVars>>

\* COMMITTING: the cursor is saved, the lock released, the summary returned
Commit(st) ==
  /\ st.pc = "COMMITTING"
  /\ cursor' = [committed |-> TRUE, counters |-> st.work]
  /\ lock' = FreeLock
  /\ Return(st, Summary(st.work))
  /\ UNCHANGED triggers
  /\ UNCHANGED <<cfgVars, userVars>>

\* a store or a side cannot be reached: the pass fails, and the engine
\* either returns an error status or throws; a pass that throws may leave
\* the lock behind
Fail(st, o) ==
  /\ st.pc \in HeldPhases
  /\ lock' \in {FreeLock} \cup
               (IF o.kind = "thrown" THEN {[lock EXCEPT !.live = FALSE]} ELSE {})
  /\ Return(st, o)
  /\ UNCHANGED <<triggers, cursor>>
  /\ UNCHANGED <<cfgVars, userVars>>

\* time passes while the lock is held; the host ends the holder when it
\* reaches its maximum runtime, and the lock it held stays behind
Tick ==
  /\ lock.held
  /\ lock.age < LockTTL
  /\ IF lock.live /\ lock.age + 1 >= HostMaxRuntime
       THEN \E st \in Running :
              /\ st.pc \in HeldPhases
              /\ End(st)
              /\ lock' = [lock EXCEPT !.age = @ + 1, !.live = FALSE]
              /\ lastCall' = IF st.fn \in AdminFns THEN "killed" ELSE lastCall
       ELSE /\ lock' = [lock EXCEPT !.age = @ + 1]
            /\ UNCHANGED <<procs, lastCall>>
  /\ ret' = NoRet
  /\ UNCHANGED <<triggers, cursor>>
  /\ UNCHANGED <<cfgVars, userVars>>

Next ==
  \/ \E fn \in AdminFns : StartAdmin(fn)
  \/ \E st \in Running, threw \in BOOLEAN : ResetClear(st, threw)
  \/ \E st \in Running, threw \in BOOLEAN : ResetData(st, threw)
  \/ \E st \in Running, threw \in BOOLEAN : SetupSheet(st, threw)
  \/ \E st \in Running, fp \in FailurePoints : SetupTriggersStep(st, fp)
  \/ TimerFires
  \/ ManualSync
  \/ CalendarChanges
  \/ \E check \in {"in", "out", "throws"} : SheetEdited(check)
  \/ \E st \in Running : Acquire(st)
  \/ \E st \in Running : Load(st)
  \/ \E st \in Running : Diff(st)
  \/ \E st \in Running : Resolve(st)
  \/ \E st \in Running : Write(st)
  \/ \E st \in Running : Commit(st)
  \/ \E st \in Running, o \in {ErrorStatus, Thrown} : Fail(st, o)
  \/ Tick

(***************************************************************************)
(* Specifications                                                          *)
(***************************************************************************)
Init == CfgInit /\ UserInit /\ MainInit

Spec == Init /\ [][Next]_vars

\* the same system run with a Config object that validate() rejects
InvalidConfigInit ==
  /\ cfg = InvalidConfig /\ setsDone = 0 /\ cRes = NoCall
  /\ UserInit
  /\ MainInit

InvalidConfigSpec == InvalidConfigInit /\ [][Next]_vars

MainIdle ==
  /\ triggers = NoTriggers
  /\ lock = FreeLock
  /\ procs = EmptyBag
  /\ cursor = NoCursor
  /\ lastCall = "none"
  /\ ret = NoRet

ConfigInit == CfgInit /\ UserInit /\ MainIdle

ConfigNext ==
  \/ \E path \in SetPaths, value \in SetValues : CallSet(path, value)
  \/ \E path \in SetPaths, d \in GetDefaults : CallGet(path, d)
  \/ CallValidate

ConfigSpec == ConfigInit /\ [][ConfigNext]_vars

UserStoreInit == CfgInit /\ UserInit /\ MainIdle

UserStoreNext ==
  \/ \E key \in WriteKeys, value \in WriteValues : CallSetUserConfig(key, value)
  \/ \E key \in UserKeys, d \in GetDefaults : CallGetUserConfig(key, d)
  \/ CallInitializeUserConfig
  \/ ClockTick

UserStoreSpec == UserStoreInit /\ [][UserStoreNext]_vars

(***************************************************************************)
(* Properties                                                              *)
(***************************************************************************)
\* the executions between LOADING and COMMITTING
Holders == {st \in Running : st.pc \in HeldPhases}

C2_FailureReturnsErrorStatus ==
  ret.failed => /\ ret.kind = "value"
                /\ ret.val.kind = "status"
                /\ ret.val.cause # ""

\* C3: while Config.validate() would report errors, no execution is inside
\* the sync engine.
C3_NoPassOnInvalidConfig ==
  Validate(cfg) # <<>> => \A st \in Running : st.pc \notin EnginePhases

\* C5: once setup has succeeded, every kind of notification (timer, sheet
\* edit, calendar change) has a trigger that runs its handler.
C5_EveryNotificationHasHandler ==
  lastCall = "success" => \A k \in TriggerKinds : triggers[k] >= 1

C8_EditOutsideRangeIgnored ==
  /\ [](\A st \in Running :
          st.fn = "onSheetEdit" /\ st.pc \in EnginePhases => st.check = "in")
  /\ [](ret.fn = "onSheetEdit" /\ ret.check = "out"
          => ret.kind = "undefined" /\ ~ret.reported /\ ret.val = NoOutcome)
  /\ [][ret'.check = "out" /\ ret' # ret
          => lock' = lock /\ cursor' = cursor /\ procs' = procs]_vars

\* C8 witness: onSheetEdit has just returned from an out-of-range edit
\* while another pass is in flight.
C8_Witness ==
  /\ ret.fn = "onSheetEdit" /\ ret.check = "out"
  /\ \E st \in Holders : st.work.created = 1

\* the custom fields of a Config object, in Object.entries order
CustomFields(c) ==
  IF Prop(c, "CUSTOM_FIELDS").t = "obj" THEN Prop(c, "CUSTOM_FIELDS").e ELSE <<>>

\* a field definition that lacks a column or a name
LacksColumnOrName(fieldConfig) ==
  ~Truthy(Prop(fieldConfig, "column")) \/ ~Truthy(Prop(fieldConfig, "name"))

\* the errors of a list that are about the field entry: those that name
\* it, and for a null or undefined definition also the error of the
\* exception it raises
ErrorsAbout(errs, entry) ==
  Cardinality({i \in 1..Len(errs) :
      \/ errs[i] = Err("custom", entry[1])
      \/ Nullish(entry[2]) /\ errs[i].kind = "exception"})

\* C4: the list validate() returns holds exactly one structural error for
\* each custom field that lacks a column or a name and none for a field
\* that declares both, whatever else is wrong with the Config object.
C4_ValidateListsEveryDefectiveField ==
  cRes.op = "validate" =>
    \A i \in 1..Len(CustomFields(cfg)) :
      ErrorsAbout(cRes.errs, CustomFields(cfg)[i])
        = (IF LacksColumnOrName(CustomFields(cfg)[i][2]) THEN 1 ELSE 0)

\* C7: Config.set(p, v) never throws, and a Config.get(p, d) that follows
\* it returns v.
C7_SetGetRoundTrip ==
  /\ cRes.op = "set" => ~cRes.threw
  /\ cRes.op = "get" /\ cRes.follows => ~cRes.threw /\ cRes.res = cRes.val

\* C9: a getUserConfig(k, d) that follows setUserConfig(k, v) returns v,
\* with v's type.
C9_UserConfigRoundTrip ==
  uRes.op = "get" /\ uRes.follows => uRes.res = uRes.val

\* C10: an initializeUserConfig call made after a SPREADSHEET_ID entry has
\* been stored leaves every property as it was.
C10_DefaultsWrittenOnce ==
  [][uRes'.op = "init" /\ everId => props' = props]_vars

====
